---- MODULE Spec2Model ----
(***************************************************************************)
(* Registration-roster reconciliation of app.py: the quantity extractor,   *)
(* the lunch/VIP entitlement resolvers, the entity classifier, the         *)
(* spreadsheet pipeline (header probing, identity filter, buyer grouping,  *)
(* guest-ticket distribution) and the summary with its displayed metrics.  *)
(*                                                                         *)
(* Cell values are modelled by their textual form str(value): a TLA+       *)
(* string is a sequence of characters, so Len, SubSeq, Head, Tail and \o   *)
(* take it apart.  A missing cell (pandas NaN / None) is the value NaN;    *)
(* read_excel never yields the text "NaN" itself, it is one of the strings *)
(* pandas reads as missing.                                                *)
(***************************************************************************)
EXTENDS Integers, Sequences, FiniteSets, TLC

VARIABLES
    pc,            \* position of the run
    arg,           \* argument of the utility function under call
    ret,           \* its return value
    file,          \* the uploaded workbook, as read_excel sees it
    processed_df,  \* the roster returned by process_registration_data
    summary,       \* the dict returned by calculate_summary
    metrics,       \* the five figures shown by st.columns(5)
    error          \* the exception caught by the main block, if any

vars == <<pc, arg, ret, file, processed_df, summary, metrics, error>>

-----------------------------------------------------------------------------
(* Bounds of the model *)

MaxLen == 3

MaxQty == 1

MaxPad == 1

MaxRows == 3

-----------------------------------------------------------------------------
(* Python built-ins on text *)

NaN == "NaN"

isna(value) == value = NaN

notna(value) == value # NaN

Char(s, i) == SubSeq(s, i, i)

UpperCase == "ABCDEFGHIJKLMNOPQRSTUVWXYZ"

LowerCase == "abcdefghijklmnopqrstuvwxyz"

Digits == "0123456789"

Whitespace == {" ", "\t", "\n", "\r", "\f"}

LowerChar(c) ==
    IF \E i \in 1..Len(UpperCase) : Char(UpperCase, i) = c
    THEN Char(LowerCase, CHOOSE i \in 1..Len(UpperCase) : Char(UpperCase, i) = c)
    ELSE c

RECURSIVE lower(_)
lower(s) == IF s = "" THEN "" ELSE LowerChar(Head(s)) \o lower(Tail(s))

\* Python's  sub in s
In(sub, s) ==
    \E i \in 1..(Len(s) - Len(sub) + 1) : SubSeq(s, i, i + Len(sub) - 1) = sub

RECURSIVE lstrip(_)
lstrip(s) == IF s # "" /\ Head(s) \in Whitespace THEN lstrip(Tail(s)) ELSE s

RECURSIVE rstrip(_)
rstrip(s) ==
    IF s # "" /\ Char(s, Len(s)) \in Whitespace
    THEN rstrip(SubSeq(s, 1, Len(s) - 1))
    ELSE s

strip(s) == rstrip(lstrip(s))

IsDigit(c) == \E i \in 1..Len(Digits) : Char(Digits, i) = c

DigitValue(c) == (CHOOSE i \in 1..Len(Digits) : Char(Digits, i) = c) - 1

\* re.match(r'^(\d+)', s).group(1), "" when there is no match
RECURSIVE re_match_digits(_)
re_match_digits(s) ==
    IF s # "" /\ IsDigit(Head(s))
    THEN Head(s) \o re_match_digits(Tail(s))
    ELSE ""

\* int() of a non-empty run of decimal digits
RECURSIVE int(_)
int(s) ==
    IF Len(s) = 1
    THEN DigitValue(s)
    ELSE 10 * int(SubSeq(s, 1, Len(s) - 1)) + DigitValue(Char(s, Len(s)))

\* str() of a non-negative integer
RECURSIVE str(_)
str(n) == IF n < 10 THEN Char(Digits, n + 1) ELSE str(n \div 10) \o Char(Digits, (n % 10) + 1)

-----------------------------------------------------------------------------
(* Utility functions *)

extract_quantity_from_string_no_strip(value) ==
    IF isna(value) \/ value = ""
    THEN 0
    ELSE LET match == re_match_digits(value)
         IN  IF match # "" THEN int(match) ELSE 0

extract_quantity_from_string(value) ==
    IF isna(value) \/ value = ""
    THEN 0
    ELSE LET value_str == strip(value)
             match == re_match_digits(value_str)
         IN  IF match # "" THEN int(match) ELSE 0

lunch_columns == <<"Lunch (Included)", "Guest Lunch Ticket", "Purchase Lunch">>

vip_columns == <<"VIP Social (Included)", "Guest VIP Social Ticket", "Purchase VIP Social">>

\* The  for col in lunch_columns  loop of check_lunch_status from its k-th column on
RECURSIVE lunch_loop(_, _)
lunch_loop(row, k) ==
    IF k > Len(lunch_columns)
    THEN ""
    ELSE LET col == lunch_columns[k]
         IN  IF col \in DOMAIN row /\ notna(row[col])
             THEN LET value_str == lower(row[col])
                  IN  IF In("no lunch", value_str)
                      THEN lunch_loop(row, k + 1)
                      ELSE IF In("lunch", value_str)
                              \/ extract_quantity_from_string(row[col]) > 0
                           THEN "LUNCH"
                           ELSE lunch_loop(row, k + 1)
             ELSE lunch_loop(row, k + 1)

\* The loop without its explicit-negation test
RECURSIVE lunch_loop_no_negation(_, _)
lunch_loop_no_negation(row, k) ==
    IF k > Len(lunch_columns)
    THEN ""
    ELSE LET col == lunch_columns[k]
         IN  IF col \in DOMAIN row /\ notna(row[col])
                /\ (In("lunch", lower(row[col]))
                      \/ extract_quantity_from_string(row[col]) > 0)
             THEN "LUNCH"
             ELSE lunch_loop_no_negation(row, k + 1)

check_lunch_status_no_negation(row) == lunch_loop_no_negation(row, 1)

check_lunch_status(row) == lunch_loop(row, 1)

\* The  for col in vip_columns  loop of check_vip_status from its k-th column on
RECURSIVE vip_loop(_, _)
vip_loop(row, k) ==
    IF k > Len(vip_columns)
    THEN ""
    ELSE LET col == vip_columns[k]
         IN  IF col \in DOMAIN row /\ notna(row[col])
             THEN LET value_str == lower(row[col])
                  IN  IF In("\"no\"", value_str)
                      THEN vip_loop(row, k + 1)
                      ELSE IF In("yes", value_str)
                              \/ extract_quantity_from_string(row[col]) > 0
                           THEN "VIP"
                           ELSE vip_loop(row, k + 1)
             ELSE vip_loop(row, k + 1)

check_vip_status(row) == vip_loop(row, 1)

TICKET_TYPE_MAPPING ==
    ("Full-Access Registration" :> "ATTENDEE")
    @@ ("Standard Registration" :> "ATTENDEE")
    @@ ("Student Registration" :> "ATTENDEE")
    @@ ("Entrepreneur Registration" :> "ATTENDEE")
    @@ ("Exhibitor Full-Access Registration" :> "EXHIBITOR")
    @@ ("Exhibitor Standard Registration" :> "EXHIBITOR")
    @@ ("Second Exhibitor" :> "EXHIBITOR")
    @@ ("Guest Full-Access Registration" :> "ATTENDEE")
    @@ ("Guest Standard Registration" :> "ATTENDEE")
    @@ ("Guest Registration with Lunch" :> "ATTENDEE")
    @@ ("Speaker" :> "SPEAKER")
    @@ ("Sponsor" :> "SPONSOR")
    @@ ("Volunteer" :> "VOLUNTEER")
    @@ ("Media Registration" :> "ATTENDEE")
    @@ ("Member Innovator Pass" :> "ATTENDEE")
    @@ ("Member Visionary Pass" :> "ATTENDEE")
    @@ ("Bronze Sponsorship" :> "SPONSOR")
    @@ ("Silver Sponsorship" :> "SPONSOR")
    @@ ("Gold Sponsorship" :> "SPONSOR")
    @@ ("Platinum Sponsorship" :> "SPONSOR")

map_entity_type_no_strip(ticket_type) ==
    IF isna(ticket_type)
    THEN "ATTENDEE"
    ELSE IF ticket_type \in DOMAIN TICKET_TYPE_MAPPING
         THEN TICKET_TYPE_MAPPING[ticket_type]
         ELSE "ATTENDEE"

map_entity_type(ticket_type) ==
    IF isna(ticket_type)
    THEN "ATTENDEE"
    ELSE LET ticket_str == strip(ticket_type)
         IN  IF ticket_str \in DOMAIN TICKET_TYPE_MAPPING
             THEN TICKET_TYPE_MAPPING[ticket_str]
             ELSE "ATTENDEE"

required_columns ==
    << "Buyer Email",
       "Attendee First Name",
       "Attendee Last Name",
       "Attendee Email",
       "Registration/Ticket Type",
       "Lunch (Included)",
       "Guest Lunch Ticket",
       "Purchase Lunch",
       "VIP Social (Included)",
       "Guest VIP Social Ticket",
       "Purchase VIP Social" >>

-----------------------------------------------------------------------------
(* pandas *)

\* The characters of the buyer e-mails in code-point order: Python compares
\* str by code point
Ascii == " +-.0123456789@ABCDEFGHIJKLMNOPQRSTUVWXYZ_abcdefghijklmnopqrstuvwxyz"

Ord(c) == CHOOSE i \in 1..Len(Ascii) : Char(Ascii, i) = c

\* a < b on str
RECURSIVE StrLess(_, _)
StrLess(a, b) ==
    IF b = "" THEN FALSE
    ELSE IF a = "" THEN TRUE
    ELSE IF Head(a) = Head(b) THEN StrLess(Tail(a), Tail(b))
    ELSE Ord(Head(a)) < Ord(Head(b))

\* The keys of a groupby, which sorts them (sort=True is the default)
RECURSIVE sorted(_)
sorted(keys) ==
    IF keys = {}
    THEN <<>>
    ELSE LET least == CHOOSE k \in keys : \A other \in keys \ {k} : StrLess(k, other)
         IN  <<least>> \o sorted(keys \ {least})

\* The column labels pandas makes of a header line: an empty cell is Unnamed
column_names(line) ==
    [k \in 1..Len(line) |-> IF isna(line[k]) THEN "Unnamed: " \o str(k - 1) ELSE line[k]]

\* A line of the sheet as a row of the frame: its cells by column label
Series(columns, line) ==
    [col \in {columns[k] : k \in 1..Len(columns)} |->
        line[CHOOSE k \in 1..Len(columns) : columns[k] = col]]

\* pd.read_excel(file, header=h) of a sheet that has a line h: that line gives
\* the column labels, the lines below it the rows
read_excel(f, header) ==
    LET columns == column_names(f[header + 1])
    IN  [columns |-> columns,
         rows |-> [i \in 1..(Len(f) - header - 1) |-> Series(columns, f[header + 1 + i])]]

\* [col for col in required_columns if col not in df.columns]
missing_from(df) ==
    SelectSeq(required_columns,
              LAMBDA col : \A k \in 1..Len(df.columns) : df.columns[k] # col)

\* df[required_columns]
select_required(df) ==
    [i \in 1..Len(df.rows) |->
        [col \in {required_columns[k] : k \in 1..Len(required_columns)} |-> df.rows[i][col]]]

\* df.dropna(subset=...)
dropna_buyer_only(rows, subset) == SelectSeq(rows, LAMBDA r : notna(r["Buyer Email"]))

dropna(rows, subset) == SelectSeq(rows, LAMBDA r : \A col \in subset : notna(r[col]))

\* pd.DataFrame(processed_rows): a list of no dicts gives a frame of no columns
DataFrame(rows) ==
    [columns |-> IF rows = <<>> THEN {} ELSE DOMAIN rows[1],
     rows    |-> rows]

-----------------------------------------------------------------------------
(* Main processing function *)

\* if guest_qty > 0 and idx < guest_qty
guest_ticket_off_by_one(idx, guest_qty) == guest_qty > 0 /\ idx <= guest_qty

guest_ticket(idx, guest_qty) == guest_qty > 0 /\ idx < guest_qty

\* The body of the loop over a buyer's attendees
output_row(attendee_row, idx, guest_vip_qty, guest_lunch_qty) ==
    ("Attendee First Name" :> attendee_row["Attendee First Name"])
    @@ ("Attendee Last Name" :> attendee_row["Attendee Last Name"])
    @@ ("Attendee Email" :> attendee_row["Attendee Email"])
    @@ ("EntityType" :> map_entity_type(attendee_row["Registration/Ticket Type"]))
    @@ ("VIP" :> IF guest_ticket(idx, guest_vip_qty)
                 THEN "VIP"
                 ELSE check_vip_status(attendee_row))
    @@ ("Lunch" :> IF guest_ticket(idx, guest_lunch_qty)
                   THEN "LUNCH"
                   ELSE check_lunch_status(attendee_row))

\* The body of the loop over buyer_groups
process_group(group) ==
    LET first_row == group[1]
        guest_lunch_qty == extract_quantity_from_string(first_row["Guest Lunch Ticket"])
        guest_vip_qty == extract_quantity_from_string(first_row["Guest VIP Social Ticket"])
    IN  [i \in 1..Len(group) |->
            output_row(group[i], i - 1, guest_vip_qty, guest_lunch_qty)]

RECURSIVE process_groups(_, _)
process_groups(rows, buyer_emails) ==
    IF buyer_emails = <<>>
    THEN <<>>
    ELSE LET buyer_email == Head(buyer_emails)
             group == SelectSeq(rows, LAMBDA r : r["Buyer Email"] = buyer_email)
         IN  process_group(group) \o process_groups(rows, Tail(buyer_emails))

\* The part of process_registration_data after the header is found
process_frame(df) ==
    LET kept == dropna(select_required(df),
                       {"Buyer Email", "Attendee Email",
                        "Attendee First Name", "Attendee Last Name"})
        buyer_groups == sorted({kept[i]["Buyer Email"] : i \in 1..Len(kept)})
    IN  DataFrame(process_groups(kept, buyer_groups))

process_registration_data(f) ==
    LET first == read_excel(f, 0)
    IN  IF missing_from(first) = <<>>
        THEN [raised |-> FALSE, value |-> process_frame(first)]
        ELSE LET second == read_excel(f, 2)
                 missing_cols == missing_from(second)
             IN  IF missing_cols # <<>>
                 THEN [raised |-> TRUE,
                       value |-> [type |-> "ValueError",
                                  raised_by |-> "process_registration_data",
                                  missing |-> missing_cols]]
                 ELSE [raised |-> FALSE, value |-> process_frame(second)]

-----------------------------------------------------------------------------
(* Summary statistics *)

\* (mask).sum(): the number of rows where a boolean column holds
sum(mask) == Cardinality({i \in DOMAIN mask : mask[i]})

\* df['EntityType'].value_counts().to_dict()
value_counts(df, col) ==
    [v \in {df.rows[i][col] : i \in 1..Len(df.rows)} |->
        sum([i \in 1..Len(df.rows) |-> df.rows[i][col] = v])]

calculate_summary(df) ==
    IF "VIP" \notin df.columns
    THEN [raised |-> TRUE,
          value |-> [type |-> "KeyError", raised_by |-> "calculate_summary", key |-> "VIP"]]
    ELSE LET vip == [i \in 1..Len(df.rows) |-> df.rows[i]["VIP"] = "VIP"]
             lunch == [i \in 1..Len(df.rows) |-> df.rows[i]["Lunch"] = "LUNCH"]
         IN  [raised |-> FALSE,
              value |->
                [total_attendees |-> Len(df.rows),
                 vip_count |-> sum(vip),
                 lunch_count |-> sum(lunch),
                 vip_and_lunch_count |->
                     sum([i \in 1..Len(df.rows) |-> vip[i] /\ lunch[i]]),
                 vip_only |-> sum([i \in 1..Len(df.rows) |-> vip[i] /\ ~lunch[i]]),
                 lunch_only |-> sum([i \in 1..Len(df.rows) |-> ~vip[i] /\ lunch[i]]),
                 entity_breakdown |-> value_counts(df, "EntityType")]]

\* The figure of the fifth metric, labelled "VIP OR Lunch"
vip_or_lunch_metric_inclusive(s) == s.vip_only + s.lunch_only + s.vip_and_lunch_count

vip_or_lunch_metric(s) == s.vip_only + s.lunch_only

-----------------------------------------------------------------------------
(* Inputs *)

RECURSIVE Texts(_, _)
Texts(alphabet, n) ==
    IF n = 0
    THEN {""}
    ELSE LET shorter == Texts(alphabet, n - 1)
         IN  shorter \cup {s \o c : s \in shorter, c \in alphabet}

QuantityAlphabet == {"1", "0", "2", " ", "L"}

QuantityValues ==
    {NaN, "2 'Lunch' - Not Picked Up", "1 'Yes' - Not Picked Up", "Yes", " 12 "}
        \cup Texts(QuantityAlphabet, MaxLen)

\* A ticket add-on cell as the registration report exports it
ExportCell(q, quote, word) == str(q) \o " " \o quote \o word \o quote \o " - Not Picked Up"

Cells(words, quotes) ==
    {NaN} \cup words \cup {str(q) : q \in 0..MaxQty}
        \cup {ExportCell(q, quote, w) : q \in 0..MaxQty, quote \in quotes, w \in words}

LunchCells == Cells({"Lunch", "No Lunch", "NO LUNCH"}, {"'"})

VipCells == Cells({"Yes", "No"}, {"'", "\""})

\* A line of the sheet, its cells in the order of required_columns
Line(buyer, first, last, email, ticket, lunch, vip) ==
    <<buyer, first, last, email, ticket,
      lunch[1], lunch[2], lunch[3], vip[1], vip[2], vip[3]>>

Row(buyer, first, last, email, ticket, lunch, vip) ==
    Series(required_columns, Line(buyer, first, last, email, ticket, lunch, vip))

NoSignal == <<NaN, NaN, NaN>>

LunchRows ==
    {Row("a@x.com", "Ann", "Lee", "ann@x.com", "Speaker", <<a, b, c>>, NoSignal) :
        a \in LunchCells, b \in LunchCells, c \in LunchCells}

VipRows ==
    {Row("a@x.com", "Ann", "Lee", "ann@x.com", "Speaker", NoSignal, <<a, b, c>>) :
        a \in VipCells, b \in VipCells, c \in VipCells}

Pads == Texts({" "}, MaxPad)

SampleNames == DOMAIN TICKET_TYPE_MAPPING \cup {"Unknown Pass", ""}

TicketNames ==
    {NaN} \cup
    {l \o name \o r :
        l \in Pads, r \in Pads, name \in SampleNames \cup {lower(k) : k \in SampleNames}}

AllColumns == {required_columns[i] : i \in 1..Len(required_columns)}

Blank == [k \in 1..Len(required_columns) |-> NaN]

Title == [Blank EXCEPT ![1] = "Registration Report"]

\* A header line: the full header, one with a column under another label, one
\* with two labels left empty
HeaderLines ==
    { required_columns,
      [required_columns EXCEPT ![1] = "Buyer"],
      [required_columns EXCEPT ![8] = NaN, ![11] = NaN] }

\* The lines of a sheet down to its header: in row 1, in row 3 under a title,
\* or in both
Tops ==
    {<<h>> : h \in HeaderLines}
        \cup {<<Title, Blank, h>> : h \in HeaderLines}
        \cup {<<required_columns, Blank, required_columns>>}

\* Lines that differ in their identity fields
IdentityLines ==
    { Line("b@x.com", "Ann", "Lee", "ann@x.com", "Speaker", NoSignal, NoSignal),
      Line("a@x.com", "Bob", "Ray", "ann@x.com", "Unknown Pass", NoSignal, <<"Yes", NaN, NaN>>),
      Line("b@x.com", "Cy", "Poe", "cy@x.com", NaN, <<"Lunch", NaN, NaN>>, <<NaN, NaN, "Yes">>),
      Line(NaN, "Dee", "Orr", "dee@x.com", "Sponsor", <<"Lunch", NaN, NaN>>, NoSignal),
      Line("a@x.com", "Eve", "Kim", NaN, "Volunteer", NoSignal, NoSignal),
      Line("b@x.com", NaN, "Fox", "fox@x.com", "Speaker", NoSignal, <<"Yes", NaN, NaN>>),
      Line("a@x.com", "Gus", NaN, "gus@x.com", "Speaker", NoSignal, NoSignal) }

\* Lines that differ in their ticket add-on fields
PoolLines ==
    { Line("a@x.com", "Ann", "Lee", "ann@x.com", "Speaker",
           <<NaN, ExportCell(2, "'", "Lunch"), NaN>>, <<NaN, ExportCell(1, "'", "Yes"), NaN>>),
      Line("a@x.com", "Bob", "Ray", "bob@x.com", "Speaker",
           <<"No Lunch", NaN, NaN>>, <<"No", NaN, NaN>>),
      Line("a@x.com", "Cy", "Poe", "cy@x.com", "Speaker", NoSignal, NoSignal),
      Line("a@x.com", "Ida", "Moss", "ida@x.com", "Speaker",
           <<NaN, ExportCell(2, "'", "Lunch"), NaN>>, <<NaN, ExportCell(1, "'", "Yes"), NaN>>),
      Line("a@x.com", "Dee", "Orr", "dee@x.com", "Sponsor",
           <<"Lunch", NaN, NaN>>, <<NaN, NaN, ExportCell(1, "'", "Yes")>>),
      Line("a@x.com", "Eve", "Kim", NaN, "Speaker",
           <<NaN, ExportCell(3, "'", "Lunch"), NaN>>, <<NaN, ExportCell(3, "'", "Yes"), NaN>>),
      Line("b@x.com", "Fay", "Fox", "fay@x.com", "Volunteer",
           <<NaN, ExportCell(1, "'", "Lunch"), NaN>>, NoSignal),
      Line("b@x.com", "Gus", "Hill", "gus@x.com", "Speaker", NoSignal, NoSignal),
      Line("b@x.com", "Hal", "Ives", "hal@x.com", "Speaker",
           <<NaN, NaN, "1">>, <<NaN, ExportCell(2, "'", "Yes"), NaN>>) }

\* The data lines of a sheet
RECURSIVE Sheets(_, _)
Sheets(lines, n) ==
    IF n = 0
    THEN {<<>>}
    ELSE LET shorter == Sheets(lines, n - 1)
         IN  shorter \cup {Append(s, l) : s \in shorter, l \in lines}

-----------------------------------------------------------------------------
(* The run *)

Idle == "-"

InitCall(args) ==
    /\ pc = "call"
    /\ arg \in args
    /\ ret = Idle
    /\ file = Idle
    /\ processed_df = Idle
    /\ summary = Idle
    /\ metrics = Idle
    /\ error = Idle

Return(value) ==
    /\ pc = "call"
    /\ ret' = value
    /\ pc' = "return"
    /\ UNCHANGED <<arg, file, processed_df, summary, metrics, error>>

InitQuantity == InitCall(QuantityValues)

CallExtractQuantity == Return(extract_quantity_from_string(arg))

SpecQuantity == InitQuantity /\ [][CallExtractQuantity]_vars

InitLunch == InitCall(LunchRows)

CallCheckLunchStatus == Return(check_lunch_status(arg))

SpecLunch == InitLunch /\ [][CallCheckLunchStatus]_vars

InitVip == InitCall(VipRows)

CallCheckVipStatus == Return(check_vip_status(arg))

SpecVip == InitVip /\ [][CallCheckVipStatus]_vars

InitEntity == InitCall(TicketNames)

CallMapEntityType == Return(map_entity_type(arg))

SpecEntity == InitEntity /\ [][CallMapEntityType]_vars

\* A sheet is uploaded.  When its first line is not the full header the sheet
\* has a third line, the one read_excel(file, header=2) takes the labels from.
InitUpload(tops, lines) ==
    /\ pc = "uploaded"
    /\ file \in {top \o data : top \in tops, data \in Sheets(lines, MaxRows)}
    /\ file[1] = required_columns \/ Len(file) > 2
    /\ arg = Idle
    /\ ret = Idle
    /\ processed_df = Idle
    /\ summary = Idle
    /\ metrics = Idle
    /\ error = Idle

\* processed_df = process_registration_data(uploaded_file), or st.error
Process ==
    /\ pc = "uploaded"
    /\ LET r == process_registration_data(file)
       IN  /\ pc' = IF r.raised THEN "error" ELSE "processed"
           /\ processed_df' = IF r.raised THEN processed_df ELSE r.value
           /\ error' = IF r.raised THEN r.value ELSE error
    /\ UNCHANGED <<arg, ret, file, summary, metrics>>

\* summary = calculate_summary(processed_df), or st.error
Summarize ==
    /\ pc = "processed"
    /\ LET r == calculate_summary(processed_df)
       IN  /\ pc' = IF r.raised THEN "error" ELSE "summarized"
           /\ summary' = IF r.raised THEN summary ELSE r.value
           /\ error' = IF r.raised THEN r.value ELSE error
    /\ UNCHANGED <<arg, ret, file, processed_df, metrics>>

\* col1.metric ... col5.metric
Display ==
    /\ pc = "summarized"
    /\ metrics' = [total_attendees |-> summary.total_attendees,
                   vip_users |-> summary.vip_count,
                   lunch_users |-> summary.lunch_count,
                   vip_and_lunch |-> summary.vip_and_lunch_count,
                   vip_or_lunch |-> vip_or_lunch_metric(summary)]
    /\ pc' = "displayed"
    /\ UNCHANGED <<arg, ret, file, processed_df, summary, error>>

Next == Process \/ Summarize \/ Display

\* Sheets whose lines differ in their identity fields, under every layout
Init == InitUpload(Tops, IdentityLines)

Spec == Init /\ [][Next]_vars

\* Sheets with the header in row 1 whose lines differ in their add-on fields
InitPool == InitUpload({<<required_columns>>}, PoolLines)

SpecPool == InitPool /\ [][Next]_vars

-----------------------------------------------------------------------------
(* Quantity Extractor *)

\* The value of the decimal digits t[from..to]
RECURSIVE DecimalValue(_, _, _)
DecimalValue(t, from, to) ==
    IF to < from
    THEN 0
    ELSE 10 * DecimalValue(t, from, to - 1) + DigitValue(Char(t, to))

\* The value of the maximal run of digits that starts right after position p
\* of t, 0 when no digit stands there
RunAfter(t, p) ==
    LET k == CHOOSE n \in 0..(Len(t) - p) :
                 /\ \A i \in (p + 1)..(p + n) : IsDigit(Char(t, i))
                 /\ (p + n = Len(t) \/ ~IsDigit(Char(t, p + n + 1)))
    IN  DecimalValue(t, p + 1, p + k)

\* The number of whitespace characters t begins with
LeadingBlanks(t) ==
    CHOOSE p \in 0..Len(t) :
        /\ \A i \in 1..p : Char(t, i) \in Whitespace
        /\ (p = Len(t) \/ Char(t, p + 1) \notin Whitespace)

\* C4 as stated: extract_quantity_from_string returns a non-negative integer,
\* 0 for an absent or empty value, the value of the leading digit run when
\* the text starts with a digit, and 0 for every text whose first character
\* is not a decimal digit.
C4_AsStated ==
    pc = "return" =>
        /\ ret \in Nat
        /\ (isna(arg) \/ arg = "" => ret = 0)
        /\ (notna(arg) /\ arg # "" /\ IsDigit(Head(arg)) => ret = RunAfter(arg, 0))
        /\ (notna(arg) /\ arg # "" /\ ~IsDigit(Head(arg)) => ret = 0)

\* C4 amended: extract_quantity_from_string returns a non-negative integer,
\* 0 for an absent or empty value, and otherwise the value of the digit run
\* that follows the text's leading whitespace (0 when the first
\* non-whitespace character is not a digit or the text is all whitespace).
C4_QuantityAfterLeadingWhitespace ==
    pc = "return" =>
        /\ ret \in Nat
        /\ (isna(arg) \/ arg = "" => ret = 0)
        /\ (notna(arg) /\ arg # "" => ret = RunAfter(arg, LeadingBlanks(arg)))

C4_Witness ==
    /\ pc = "return"
    /\ notna(arg) /\ arg # ""
    /\ Head(arg) \in Whitespace
    /\ ret > 9

-----------------------------------------------------------------------------
(* Entitlement Resolver: lunch *)

NoLunch(row, k) ==
    notna(row[lunch_columns[k]]) /\ In("no lunch", lower(row[lunch_columns[k]]))

LunchSignal(row, k) ==
    /\ notna(row[lunch_columns[k]])
    /\ \/ In("lunch", lower(row[lunch_columns[k]]))
       \/ extract_quantity_from_string(row[lunch_columns[k]]) > 0

\* C2 as stated: when a lunch column holds text containing 'no lunch' and no
\* column of higher priority gave a positive signal, check_lunch_status does
\* not yield LUNCH, whatever the columns of lower priority hold.
C2_AsStated ==
    pc = "return" =>
        \A k \in 1..Len(lunch_columns) :
            (NoLunch(arg, k) /\ \A j \in 1..(k - 1) : NoLunch(arg, j) \/ ~LunchSignal(arg, j))
                => ret # "LUNCH"

\* C2 amended: a lunch column whose text contains 'no lunch' (any letter
\* case) is skipped, so it never yields LUNCH itself although its text
\* contains 'lunch', and the columns of lower priority are still consulted:
\* check_lunch_status yields LUNCH exactly when some lunch column without
\* 'no lunch' holds the word 'lunch' or a leading quantity > 0.
C2_NoLunchColumnIsSkipped ==
    pc = "return" =>
        /\ ret \in {"LUNCH", ""}
        /\ ret = "LUNCH" <=>
               \E k \in 1..Len(lunch_columns) : LunchSignal(arg, k) /\ ~NoLunch(arg, k)

C2_Witness ==
    /\ pc = "return"
    /\ NoLunch(arg, 1)
    /\ isna(arg[lunch_columns[2]]) /\ isna(arg[lunch_columns[3]])
    /\ ret = ""

-----------------------------------------------------------------------------
(* Entitlement Resolver: VIP *)

\* The text declines: No is a whole quoted token and there is no 'yes'
Declines(text) ==
    /\ In("'no'", lower(text)) \/ In("\"no\"", lower(text))
    /\ ~In("yes", lower(text))

\* C3: a VIP column whose text declines with No as the whole quoted token,
\* in the format of the quantity strings, never by itself makes the attendee
\* VIP, also when the text begins with a positive quantity; and 'no' inside
\* another word ('Not Picked Up') is no negation marker.
C3_QuotedNoIsNegative ==
    pc = "return" =>
        /\ (\A k \in 1..Len(vip_columns) :
                isna(arg[vip_columns[k]]) \/ Declines(arg[vip_columns[k]]))
            => ret # "VIP"
        /\ (\E k \in 1..Len(vip_columns) :
                /\ \A j \in 1..(k - 1) : isna(arg[vip_columns[j]])
                /\ notna(arg[vip_columns[k]])
                /\ In("yes", lower(arg[vip_columns[k]]))
                /\ In("not picked up", lower(arg[vip_columns[k]]))
                /\ ~In("\"no\"", lower(arg[vip_columns[k]])))
            => ret = "VIP"

-----------------------------------------------------------------------------
(* Entity Classifier *)

EntityTypes == {"ATTENDEE", "EXHIBITOR", "SPEAKER", "SPONSOR", "VOLUNTEER"}

\* C5 as stated: map_entity_type returns an entity type, the table's tag
\* when the name is exactly a key of TICKET_TYPE_MAPPING, and ATTENDEE for
\* an absent value and for every other name.
C5_AsStated ==
    pc = "return" =>
        /\ ret \in EntityTypes
        /\ ret = IF notna(arg) /\ arg \in DOMAIN TICKET_TYPE_MAPPING
                 THEN TICKET_TYPE_MAPPING[arg]
                 ELSE "ATTENDEE"

\* key surrounded by nothing but whitespace is the name
Padded(name, key) ==
    \E i \in 1..(Len(name) + 1) :
        /\ i + Len(key) - 1 <= Len(name)
        /\ SubSeq(name, i, i + Len(key) - 1) = key
        /\ \A j \in 1..Len(name) :
               (j < i \/ j > i + Len(key) - 1) => Char(name, j) \in Whitespace

\* C5 amended: map_entity_type returns an entity type: the table's tag when
\* the name, with its leading and trailing whitespace removed, is
\* case-sensitively a key of TICKET_TYPE_MAPPING, and ATTENDEE for an absent
\* value and for every other name.
C5_KeyMatchedAfterTrimming ==
    pc = "return" =>
        /\ ret \in EntityTypes
        /\ \A key \in DOMAIN TICKET_TYPE_MAPPING :
               (notna(arg) /\ Padded(arg, key)) => ret = TICKET_TYPE_MAPPING[key]
        /\ (isna(arg) \/ \A key \in DOMAIN TICKET_TYPE_MAPPING : ~Padded(arg, key))
               => ret = "ATTENDEE"

C5_Witness ==
    /\ pc = "return"
    /\ arg = " Speaker "
    /\ ret = "SPEAKER"

-----------------------------------------------------------------------------
(* The workbook a run started from, and what it should give *)

Min(a, b) == IF a < b THEN a ELSE b

\* Line h of the sheet holds all the required column names
Found(h) ==
    /\ Len(file) > h
    /\ \A col \in AllColumns : \E k \in 1..Len(file[h + 1]) : file[h + 1][k] = col

\* Line h of the sheet does not hold the name col
Absent(col, h) == \A k \in 1..Len(file[h + 1]) : file[h + 1][k] # col

\* The first candidate header line that holds them all
HeaderAt == IF Found(0) THEN 0 ELSE 2

\* The cell of a line that stands under the header's name col
Under(line, col) ==
    line[CHOOSE k \in 1..Len(file[HeaderAt + 1]) : file[HeaderAt + 1][k] = col]

\* The lines below that header, by column name
DataRows ==
    [i \in 1..(Len(file) - HeaderAt - 1) |->
        [col \in AllColumns |-> Under(file[HeaderAt + 1 + i], col)]]

Complete(r) ==
    /\ notna(r["Buyer Email"])
    /\ notna(r["Attendee Email"])
    /\ notna(r["Attendee First Name"])
    /\ notna(r["Attendee Last Name"])

Retained == SelectSeq(DataRows, Complete)

SameBuyer(rows, i, j) == rows[i]["Buyer Email"] = rows[j]["Buyer Email"]

\* Row i stands before row j in the roster: buyers in ascending order, the
\* rows of one buyer in input order
Before(rows, i, j) ==
    \/ StrLess(rows[i]["Buyer Email"], rows[j]["Buyer Email"])
    \/ SameBuyer(rows, i, j) /\ i < j

Place(rows, j) == 1 + Cardinality({i \in 1..Len(rows) : Before(rows, i, j)})

\* 0-based index of row j in its buyer group
GroupIndex(rows, j) == Cardinality({i \in 1..(j - 1) : SameBuyer(rows, i, j)})

FirstOfGroup(rows, j) ==
    rows[CHOOSE i \in 1..j : SameBuyer(rows, i, j) /\ GroupIndex(rows, i) = 0]

Group(rows, j) == {i \in 1..Len(rows) : SameBuyer(rows, i, j)}

\* process_registration_data has returned a roster
Processed ==
    \/ pc \in {"processed", "summarized", "displayed"}
    \/ pc = "error" /\ error.raised_by = "calculate_summary"

Summarized == pc \in {"summarized", "displayed"}

\* The roster's row for row j
Out(rows, j) == processed_df.rows[Place(rows, j)]

-----------------------------------------------------------------------------
(* Guest-Ticket Distributor *)

\* C1: the guest-pool quantities are read from the first retained row of the
\* buyer group; the attendee at 0-based index i of the group is VIP when
\* i < guestVipQty and has lunch when i < guestLunchQty, whatever the
\* attendee's own columns hold, and otherwise the flag is the result of
\* check_vip_status / check_lunch_status on the attendee's own row.
C1_PoolFirstThenResolver ==
    Processed =>
        LET retained == Retained
        IN  /\ Len(processed_df.rows) = Len(retained)
            /\ \A j \in 1..Len(retained) :
                LET i == GroupIndex(retained, j)
                    first == FirstOfGroup(retained, j)
                    out == Out(retained, j)
                    guestVipQty ==
                        extract_quantity_from_string(first["Guest VIP Social Ticket"])
                    guestLunchQty ==
                        extract_quantity_from_string(first["Guest Lunch Ticket"])
                IN  /\ i < guestVipQty => out["VIP"] = "VIP"
                    /\ i >= guestVipQty => out["VIP"] = check_vip_status(retained[j])
                    /\ i < guestLunchQty => out["Lunch"] = "LUNCH"
                    /\ i >= guestLunchQty => out["Lunch"] = check_lunch_status(retained[j])

\* A second attendee with an explicit 'No Lunch' gets lunch from a pool of 2,
\* and no VIP from a pool of 1
C1_Witness ==
    /\ Processed
    /\ LET retained == Retained
       IN  \E j \in 1..Len(retained) :
            /\ GroupIndex(retained, j) = 1
            /\ retained[j]["Lunch (Included)"] = "No Lunch"
            /\ extract_quantity_from_string(
                   FirstOfGroup(retained, j)["Guest Lunch Ticket"]) = 2
            /\ extract_quantity_from_string(
                   FirstOfGroup(retained, j)["Guest VIP Social Ticket"]) = 1
            /\ Out(retained, j)["Lunch"] = "LUNCH"
            /\ Out(retained, j)["VIP"] = ""

\* Every row of j's group has nothing in the included and purchase columns
\* and the same quantity text in the guest-ticket column
PoolOnly(rows, j, columns) ==
    \A i \in Group(rows, j) :
        /\ isna(rows[i][columns[1]])
        /\ isna(rows[i][columns[3]])
        /\ rows[i][columns[2]] = rows[j][columns[2]]

\* C9: in a buyer group whose rows hold nothing but the buyer's guest-pool
\* value q > 0 for a capability, min(N, q) attendees get the capability,
\* never more than q.
C9_PoolNeverOverGranted ==
    Processed =>
        LET retained == Retained
        IN  \A j \in 1..Len(retained) :
            LET group == Group(retained, j)
            IN  /\ LET q == extract_quantity_from_string(retained[j]["Guest Lunch Ticket"])
                   IN  (q > 0 /\ PoolOnly(retained, j, lunch_columns)) =>
                           Cardinality({i \in group : Out(retained, i)["Lunch"] = "LUNCH"})
                               = Min(Cardinality(group), q)
                /\ LET q == extract_quantity_from_string(
                                retained[j]["Guest VIP Social Ticket"])
                   IN  (q > 0 /\ PoolOnly(retained, j, vip_columns)) =>
                           Cardinality({i \in group : Out(retained, i)["VIP"] = "VIP"})
                               = Min(Cardinality(group), q)

-----------------------------------------------------------------------------
(* Reconciliation Engine *)

Identity(r) ==
    <<r["Attendee First Name"], r["Attendee Last Name"], r["Attendee Email"]>>

\* C6: the roster holds exactly one row for each input row that has a buyer
\* email, an attendee email and both attendee names, and none for any other
\* row; the rows of one buyer keep their input order; and the summary's
\* total_attendees is the number of retained rows.
C6_OneRowPerCompleteRow ==
    Processed =>
        LET retained == Retained
        IN  /\ Len(processed_df.rows) = Len(retained)
            /\ \A j \in 1..Len(retained) :
                   Identity(Out(retained, j)) = Identity(retained[j])
            /\ Summarized => summary.total_attendees = Len(retained)

\* Two buyers registered the same attendee e-mail, a row was dropped, and
\* both rows are in the roster
C6_Witness ==
    /\ Summarized
    /\ LET retained == Retained
       IN  /\ Len(retained) < Len(DataRows)
           /\ \E i, j \in 1..Len(retained) :
                /\ ~SameBuyer(retained, i, j)
                /\ retained[i]["Attendee Email"] = retained[j]["Attendee Email"]
    /\ summary.total_attendees = 2

\* The run ended in the error raised for missing required columns
MissingColumnsError ==
    /\ pc = "error"
    /\ error.type = "ValueError"
    /\ error.raised_by = "process_registration_data"

\* C7: the header is looked for in row 1, then in row 3, and the first row
\* that holds all required columns is used; the run fails with the 'missing
\* required columns' error, which names the required columns absent from both
\* rows, and gives no roster and no summary, exactly when neither row holds
\* them all.
C7_HeaderProbing ==
    pc # "uploaded" =>
        /\ MissingColumnsError <=> (~Found(0) /\ ~Found(2))
        /\ MissingColumnsError =>
            /\ error.missing # <<>>
            /\ \A col \in AllColumns :
                   (\E k \in 1..Len(error.missing) : error.missing[k] = col)
                       <=> (Absent(col, 0) /\ Absent(col, 2))
            /\ processed_df = Idle
            /\ summary = Idle
        /\ (Found(0) \/ Found(2)) =>
               Len(processed_df.rows) = Len(Retained)

\* C10: a workbook whose header holds all required columns never ends in an
\* error; when every row is dropped the roster is empty and the summary
\* counts are all 0.
C10_RowDefectsAreNotFatal ==
    (Found(0) \/ Found(2)) =>
        /\ pc # "error"
        /\ (Summarized /\ Len(Retained) = 0) =>
               /\ summary.total_attendees = 0
               /\ summary.vip_count = 0
               /\ summary.lunch_count = 0
               /\ summary.vip_and_lunch_count = 0

-----------------------------------------------------------------------------
(* Summary *)

Rows(P(_)) == Cardinality({k \in 1..Len(processed_df.rows) : P(processed_df.rows[k])})

IsVip(r) == r["VIP"] = "VIP"

HasLunch(r) == r["Lunch"] = "LUNCH"

SummaryCounts ==
    /\ summary.vip_count = Rows(IsVip)
    /\ summary.lunch_count = Rows(HasLunch)
    /\ summary.vip_and_lunch_count = Rows(LAMBDA r : IsVip(r) /\ HasLunch(r))
    /\ summary.vip_only = Rows(LAMBDA r : IsVip(r) /\ ~HasLunch(r))
    /\ summary.lunch_only = Rows(LAMBDA r : ~IsVip(r) /\ HasLunch(r))
    /\ summary.vip_only + summary.lunch_only + summary.vip_and_lunch_count
           = summary.vip_count + summary.lunch_count - summary.vip_and_lunch_count

\* C8 as stated: the summary figures are counts over the roster's rows, and
\* the figure shown as 'VIP OR Lunch' is the number of rows where VIP or
\* Lunch or both are true.
C8_AsStated ==
    pc = "displayed" =>
        /\ SummaryCounts
        /\ metrics.vip_or_lunch = Rows(LAMBDA r : IsVip(r) \/ HasLunch(r))

\* C8 amended: the summary figures are counts over the roster's rows, and
\* vip_only + lunch_only + vip_and_lunch_count is the number of rows with VIP
\* or Lunch; the figure shown as 'VIP OR Lunch' is vip_only + lunch_only, the
\* number of rows where exactly one of the two is true.
C8_FigureCountsExactlyOne ==
    pc = "displayed" =>
        /\ SummaryCounts
        /\ summary.vip_only + summary.lunch_only + summary.vip_and_lunch_count
               = Rows(LAMBDA r : IsVip(r) \/ HasLunch(r))
        /\ metrics.vip_or_lunch = Rows(LAMBDA r : IsVip(r) # HasLunch(r))
        /\ metrics.vip_users = Rows(IsVip)
        /\ metrics.lunch_users = Rows(HasLunch)
        /\ metrics.vip_and_lunch = Rows(LAMBDA r : IsVip(r) /\ HasLunch(r))

C8_Witness ==
    /\ pc = "displayed"
    /\ summary.vip_and_lunch_count = 1
    /\ summary.vip_only = 1
    /\ summary.lunch_only = 1
    /\ metrics.vip_or_lunch = 2

====
